---- MODULE Spec2Model ----
(***************************************************************************)
(* Scan-session orchestration of the face-scan client.                     *)
(*                                                                         *)
(* The module models the detector-overlay scanning component               *)
(* (Step2_Scanning of src/unnamed/part_000): the React state of the        *)
(* component, its refs, the closure variables of every startScan call, the *)
(* interval timers it creates and the remote calls that are in flight.     *)
(*                                                                         *)
(* Time is Date.now() in milliseconds and advances one poll period at a    *)
(* time.  An async handler is split at its awaits: the part before the     *)
(* await issues a call (a record in inflight), the part after it runs when *)
(* the response arrives.  Ticks of one timer may therefore overlap.  The   *)
(* callbacks of the live timers begin as their period ends.                *)
(*                                                                         *)
(* Progress is kept exactly, in units of 1/PctUnit of a percent, so that   *)
(* elapsed / (scanDuration * 1000) * 100 is an integer for every clock     *)
(* value: Pct(p) is the representation of p percent.                       *)
(***************************************************************************)
EXTENDS Integers, FiniteSets, Sequences, TLC

\* ---------------------------------------------------------------- bounds
MaxTicks == 92        \* the clock stops after this many poll periods
MaxStartTicks == 0    \* a scan is started within this many periods of mounting
MaxSessions == 1      \* startScan calls in one mount of the component
MaxLateCalls == 0     \* period ends that find a remote call still in flight
MaxFailureRun == 6    \* status polls the server fails in a row
MaxSlowCalls == 1     \* slow network: period ends that find a call still in flight
MaxRepeatedStarts == 3  \* repeated starts: startScan calls in one mount
MaxRepeatedTicks == 2   \* repeated starts: the clock stops after this many periods

\* ------------------------------------------------------ program constants
scanDuration == 45          \* seconds
PollPeriodMs == 500         \* setInterval period
FaceLostMs == 3000          \* presence-loss threshold
MaxConsecutiveErrors == 5   \* consecutiveErrors > 5
HalfwayPercent == 50        \* timeBasedProgress > 50
TimeBasedCap == 99          \* Math.min(..., 99)
LateErrorTenths == 8        \* timeElapsed < scanDuration * 1000 * 0.8
OnCompleteDelayMs == 1500   \* setTimeout(() => onComplete(), 1500)

DurationMs == scanDuration * 1000
PctUnit == DurationMs \div 100
Pct(p) == p * PctUnit

Min(a, b) == IF a <= b THEN a ELSE b
Max(a, b) == IF a >= b THEN a ELSE b

\* -------------------------------------------------- remote status values
Absent == -1                                  \* progress_percent missing
ServerProgress == {Absent, 40, 100}
ServerStatus == {"running", "complete", "error"}

NotWritten == -1
NoError == "null"
NoSid == 0
\* the startScan calls of one mount, in any of the specifications
Sids == 1..Max(MaxSessions, MaxRepeatedStarts)

VARIABLES
  now,               \* Date.now()
  cameraReady,       \* useState(false)
  scanning,          \* useState(false)
  progress,          \* useState(0), in 1/PctUnit percent
  faceDetected,      \* useState(false)
  message,           \* useState('Initializing camera...'), by kind
  error,             \* useState(null)
  lastFaceSeenRef,   \* useRef(Date.now())
  scanStartedRef,    \* useRef(false)
  pollIntervalRef,   \* useRef(null): the timer id last stored
  scanStartTime,     \* per startScan call: const scanStartTime
  consecutiveErrors, \* per startScan call: let consecutiveErrors
  nextSid,           \* number of startScan calls so far
  timers,            \* interval timers that are set and not cleared
  inflight,          \* remote calls awaiting their response
  onCompleteScheduled, \* setTimeout(() => onComplete(), 1500) calls so far
  initCameraPending, \* initCamera() has not settled yet
  lateCalls,         \* period ends so far that found a call in flight, per call
  ignoredErrors,     \* startScan calls one of whose ticks ignored a reported error
  completeSeen,      \* startScan calls one of whose polls returned status complete
  faceEverSeen,      \* a frame with a face was processed since the mount
  loop,              \* which Step2_Scanning is loaded: the detector or the headless one
  mounted,           \* Step2_Scanning is mounted
  currentStep,       \* App: useState(1), the wizard step shown
  onCompleteDue,     \* the times at which pending onComplete timeouts run
  results,           \* Step3_Results: "none" before it mounts, then its load state
  twin,              \* the headless page given the same clicks and responses
  ev                 \* the handler step that produced the current state

vars == <<now, cameraReady, scanning, progress, faceDetected, message, error,
          lastFaceSeenRef, scanStartedRef, pollIntervalRef, scanStartTime,
          consecutiveErrors, nextSid, timers, inflight,
          onCompleteScheduled, initCameraPending, lateCalls, ignoredErrors,
          completeSeen, faceEverSeen, loop, mounted, currentStep, onCompleteDue,
          results, twin,
          ev>>

\* The headless page (app.jsx) before a scan: useState(false), useState(0),
\* useState(null), useRef(null) of lines 198-204; completed records that its
\* onComplete was scheduled; last is the click or response it handled last.
TwinInit ==
  [scanning |-> FALSE, progress |-> 0, error |-> "null", timer |-> FALSE,
   completed |-> FALSE, last |-> <<"mount", 0>>]

\* what the handlers of Step2_Scanning never write
appVars == <<loop, mounted, currentStep, results, twin>>

uiVars == <<cameraReady, scanning, progress, faceDetected, message, error>>

\* ------------------------------------------------------------ call records
Call(kind, sid, tick, timeElapsed, at) ==
  [kind |-> kind, sid |-> sid, tick |-> tick, timeElapsed |-> timeElapsed,
   at |-> at, algorithm |-> "pos", duration |-> scanDuration]

\* ev: which handler step ran, for which startScan call, with which response
\* (ok, status, pp), the tick's timeElapsed, the time the settled call was
\* issued, and the value of the step's first setProgress (NotWritten if none)
Event(op, sid, ok, status, pp, timeElapsed, at, written) ==
  [op |-> op, sid |-> sid, ok |-> ok, status |-> status, pp |-> pp,
   timeElapsed |-> timeElapsed, at |-> at, written |-> written]

PlainEvent(op) == Event(op, NoSid, TRUE, "none", Absent, 0, 0, NotWritten)

\* ---------------------------------------------------- the tick's decisions
\* mutant: the threshold typed with one zero too many
FaceLost_LongThreshold(t, lastSeen, started) ==
  (t - lastSeen > 10 * FaceLostMs) /\ started

\* line 389-390: timeSinceFace > 3000 && scanStartedRef.current
FaceLost(t, lastSeen, started) == (t - lastSeen > FaceLostMs) /\ started

\* mutant: the elapsed share of the duration without the cap
timeBasedProgress_Uncapped(timeElapsed) ==
  (timeElapsed * 100 * PctUnit) \div (scanDuration * 1000)

\* line 408: Math.min((timeElapsed / (scanDuration * 1000)) * 100, 99)
timeBasedProgress(timeElapsed) ==
  Min((timeElapsed * 100 * PctUnit) \div (scanDuration * 1000), Pct(TimeBasedCap))

\* line 418: statusData.progress_percent || 0
apiProgress(pp) == IF pp = Absent THEN 0 ELSE pp

\* mutant: the server's progress alone, as the headless loop displays it
currentProgress_ServerOnly(pp, timeElapsed) == Pct(apiProgress(pp))

\* line 419: Math.max(apiProgress, timeBasedProgress)
currentProgress(pp, timeElapsed) ==
  Max(Pct(apiProgress(pp)), timeBasedProgress(timeElapsed))

\* mutant: strict comparison with the duration
TimeUp_Strict(timeElapsed) == timeElapsed > scanDuration * 1000

\* lines 430 and 483: timeElapsed >= scanDuration * 1000
TimeUp(timeElapsed) == timeElapsed >= scanDuration * 1000

\* mutant: the 80% mark itself counted as early
BeforeLateMark_Inclusive(timeElapsed) ==
  timeElapsed * 10 <= scanDuration * 1000 * LateErrorTenths

\* line 448: timeElapsed < (scanDuration * 1000 * 0.8)
BeforeLateMark(timeElapsed) ==
  timeElapsed * 10 < scanDuration * 1000 * LateErrorTenths

\* mutant: the progress condition left out
TooManyErrors_CountOnly(errors, timeElapsed) == errors > MaxConsecutiveErrors

\* mutant: the counter compared with >= instead of >
TooManyErrors_AtThreshold(errors, timeElapsed) ==
  errors >= MaxConsecutiveErrors /\ timeBasedProgress(timeElapsed) > Pct(HalfwayPercent)

\* line 463: consecutiveErrors > 5 && timeBasedProgress > 50
TooManyErrors(errors, timeElapsed) ==
  errors > MaxConsecutiveErrors /\ timeBasedProgress(timeElapsed) > Pct(HalfwayPercent)

TypeOK ==
  /\ now \in 0..(MaxTicks * PollPeriodMs)
  /\ cameraReady \in BOOLEAN /\ scanning \in BOOLEAN /\ faceDetected \in BOOLEAN
  /\ progress \in 0..Pct(100)
  /\ error \in {NoError, "camera", "start", "scan", "connection"}
  /\ lastFaceSeenRef \in 0..now
  /\ scanStartedRef \in BOOLEAN
  /\ pollIntervalRef \in {NoSid} \cup Sids
  /\ nextSid \in 0..Max(MaxSessions, MaxRepeatedStarts)
  /\ timers \subseteq Sids
  /\ onCompleteScheduled \in Nat
  /\ completeSeen \subseteq Sids
  /\ faceEverSeen \in BOOLEAN
  /\ loop \in {"detector", "headless"}
  /\ mounted \in BOOLEAN
  /\ currentStep \in 1..3
  /\ onCompleteDue \subseteq 0..(MaxTicks * PollPeriodMs + OnCompleteDelayMs)
  /\ results \in {"none", "loading", "loaded", "failed"}
  /\ twin \in [scanning : BOOLEAN, progress : 0..Pct(100),
               error : {NoError, "start", "scan", "connection"},
               timer : BOOLEAN, completed : BOOLEAN,
               last : {"mount", "startScan", "startResponse", "statusResponse"}
                        \X (0..(MaxTicks * PollPeriodMs))]

Init ==
  /\ now = 0
  /\ cameraReady = FALSE
  /\ scanning = FALSE
  /\ progress = 0
  /\ faceDetected = FALSE
  /\ message = "initializing"
  /\ error = NoError
  /\ lastFaceSeenRef = 0
  /\ scanStartedRef = FALSE
  /\ pollIntervalRef = NoSid
  /\ scanStartTime = [s \in Sids |-> 0]
  /\ consecutiveErrors = [s \in Sids |-> 0]
  /\ nextSid = 0
  /\ timers = {}
  /\ inflight = {}
  /\ onCompleteScheduled = 0
  /\ initCameraPending = TRUE
  /\ lateCalls = 0
  /\ ignoredErrors = {}
  /\ completeSeen = {}
  /\ faceEverSeen = FALSE
  /\ loop = "detector"
  /\ mounted = TRUE
  /\ currentStep = 2
  /\ onCompleteDue = {}
  /\ results = "none"
  /\ twin = TwinInit
  /\ ev = PlainEvent("mount")

\* ------------------------------------------------------------------ camera
\* initCamera, lines 219-245: getUserMedia settles, then onloadedmetadata
InitCamera(ok) ==
  /\ initCameraPending
  /\ initCameraPending' = FALSE
  /\ IF ok
       THEN /\ cameraReady' = TRUE
            /\ message' = "cameraReady"
            /\ error' = error
       ELSE /\ cameraReady' = cameraReady
            /\ message' = "cameraDenied"
            /\ error' = "camera"
  /\ ev' = Event("initCamera", NoSid, ok, "none", Absent, 0, 0, NotWritten)
  /\ UNCHANGED <<now, scanning, progress, faceDetected, lastFaceSeenRef,
                 scanStartedRef, pollIntervalRef, scanStartTime,
                 consecutiveErrors, nextSid, timers, inflight,
                 onCompleteScheduled, onCompleteDue, lateCalls, ignoredErrors,
                 completeSeen, faceEverSeen, appVars>>

\* onFaceResults, lines 272-326: one processed frame
OnFaceResults(face) ==
  /\ cameraReady
  /\ faceDetected' = face
  /\ lastFaceSeenRef' = IF face THEN now ELSE lastFaceSeenRef
  /\ faceEverSeen' = (faceEverSeen \/ face)
  /\ ev' = Event("onFaceResults", NoSid, face, "none", Absent, 0, 0, NotWritten)
  /\ UNCHANGED <<now, cameraReady, scanning, progress, message, error,
                 scanStartedRef, pollIntervalRef, scanStartTime,
                 consecutiveErrors, nextSid, timers, inflight,
                 onCompleteScheduled, onCompleteDue, initCameraPending,
                 lateCalls, ignoredErrors, completeSeen, appVars>>

\* ------------------------------------------------------------ the poll tick
\* mutant: the tick polls the status before looking at the presence
TickCall_AlwaysPolls(s, t) == Call("status", s, t, t - scanStartTime[s], t)

\* The call a tick beginning at time t issues for timer s: api.reset() on the
\* face-lost branch (line 396), api.getStatus() otherwise (line 411), with
\* timeElapsed = Date.now() - scanStartTime (line 407)
TickCall(s, t) ==
  IF FaceLost(t, lastFaceSeenRef, scanStartedRef)
    THEN Call("reset", s, t, 0, t)
    ELSE Call("status", s, t, t - scanStartTime[s], t)

\* The interval callback of every live timer at time t, up to its first
\* await, lines 387-411
TickBegin(t) ==
  /\ inflight' = inflight \cup {TickCall(s, t) : s \in timers}
  /\ IF timers # {} /\ FaceLost(t, lastFaceSeenRef, scanStartedRef)
       THEN /\ message' = "faceLost"
            /\ progress' = 0
            /\ ev' = Event("faceLost", NoSid, TRUE, "none", Absent, 0, t, 0)
       ELSE /\ ev' = IF timers # {}
                       THEN Event("pollBegin", NoSid, TRUE, "none", Absent, 0, t,
                                  NotWritten)
                       ELSE PlainEvent("advanceTime")
            /\ UNCHANGED <<message, progress>>

\* ------------------------------------------------------------------- clock
\* One poll period passes and the callback of every live interval timer
\* begins.  A call still in flight when a period ends is late; lateCalls
\* counts these, once for every period a call outlasts, up to MaxLateCalls in
\* a run (MaxSlowCalls on a slow network).  While no timer is set, no call
\* is in flight and no timeout is pending nothing reads the clock but a new
\* startScan, which happens within MaxStartTicks periods of mounting.
PeriodEnds(lateBudget, timeoutPending) ==
  /\ now + PollPeriodMs <= MaxTicks * PollPeriodMs
  /\ (timers = {} /\ inflight = {} /\ ~timeoutPending) =>
        now + PollPeriodMs <= MaxStartTicks * PollPeriodMs
  /\ lateCalls + Cardinality(inflight) <= lateBudget
  /\ lateCalls' = lateCalls + Cardinality(inflight)
  /\ now' = now + PollPeriodMs
  /\ TickBegin(now + PollPeriodMs)
  /\ UNCHANGED <<cameraReady, scanning, faceDetected, error, lastFaceSeenRef,
                 scanStartedRef, pollIntervalRef, scanStartTime,
                 consecutiveErrors, nextSid, timers, onCompleteScheduled, onCompleteDue,
                 initCameraPending, ignoredErrors,
                 completeSeen, faceEverSeen, appVars>>

AdvanceTime == PeriodEnds(MaxLateCalls, FALSE)

\* --------------------------------------------------------------- startScan
\* startScan up to its await, lines 367-383.  The Start button is rendered
\* only while !scanning && cameraReady and is disabled while !faceDetected
\* (lines 613-629), which is also the early return of lines 368-371.
\* mutant: the Start button is not disabled while no face is detected
StartAccepted_NoFaceGuard == cameraReady /\ ~scanning

StartAccepted == cameraReady /\ ~scanning /\ faceDetected

\* sessions and startTicks bound the clicks a run explores: at most sessions
\* clicks, none later than startTicks periods after mounting
StartScanWithin(sessions, startTicks) ==
  /\ StartAccepted
  /\ nextSid < sessions
  /\ now <= startTicks * PollPeriodMs
  /\ nextSid' = nextSid + 1
  /\ scanning' = TRUE
  /\ scanStartedRef' = TRUE
  /\ progress' = 0
  /\ error' = NoError
  /\ scanStartTime' = [scanStartTime EXCEPT ![nextSid + 1] = now]
  /\ consecutiveErrors' = [consecutiveErrors EXCEPT ![nextSid + 1] = 0]
  /\ inflight' = inflight \cup {Call("start", nextSid + 1, now, 0, now)}
  /\ ev' = Event("startScan", nextSid + 1, TRUE, "none", Absent, 0, now, 0)
  /\ UNCHANGED <<now, cameraReady, faceDetected, message, lastFaceSeenRef,
                 pollIntervalRef, timers, onCompleteScheduled, onCompleteDue,
                 initCameraPending, lateCalls, ignoredErrors,
                 completeSeen, faceEverSeen, appVars>>

StartScan == StartScanWithin(MaxSessions, MaxStartTicks)

\* startScan after await api.startScan: lines 384-387/492 or the catch 494-499
\* mutant: the interval is set although api.startScan() was rejected
StartRejected_SetsInterval(r) ==
  /\ error' = "start"
  /\ scanning' = FALSE
  /\ scanStartedRef' = FALSE
  /\ pollIntervalRef' = r.sid
  /\ timers' = timers \cup {r.sid}

\* the catch of startScan, lines 494-499: the setInterval of line 387 is
\* not reached
StartRejected(r) ==
  /\ error' = "start"
  /\ scanning' = FALSE
  /\ scanStartedRef' = FALSE
  /\ UNCHANGED <<pollIntervalRef, timers>>

StartResponse(r, ok) ==
  /\ r \in inflight /\ r.kind = "start"
  /\ inflight' = inflight \ {r}
  /\ IF ok
       THEN /\ pollIntervalRef' = r.sid
            /\ timers' = timers \cup {r.sid}
            /\ UNCHANGED <<error, scanning, scanStartedRef>>
       ELSE StartRejected(r)
  /\ ev' = Event("startResponse", r.sid, ok, "none", Absent, 0, r.at, NotWritten)
  /\ UNCHANGED <<now, cameraReady, progress, faceDetected, message,
                 lastFaceSeenRef, scanStartTime, consecutiveErrors, nextSid,
                 onCompleteScheduled, onCompleteDue, initCameraPending,
                 lateCalls, ignoredErrors, completeSeen, faceEverSeen, appVars>>

\* ------------------------------------------------- the tick's responses
\* Face-lost branch after await api.reset(), lines 396-402
ResetResponse(r, ok) ==
  /\ r \in inflight /\ r.kind = "reset"
  /\ IF ok
       THEN /\ inflight' = (inflight \ {r}) \cup
                             {Call("restart", r.sid, r.tick, 0, now)}
            /\ UNCHANGED lastFaceSeenRef
       ELSE /\ inflight' = inflight \ {r}
            /\ lastFaceSeenRef' = now
  /\ ev' = Event("resetResponse", r.sid, ok, "none", Absent, 0, r.at, NotWritten)
  /\ UNCHANGED <<now, uiVars, scanStartedRef, pollIntervalRef, scanStartTime,
                 consecutiveErrors, nextSid, timers, onCompleteScheduled, onCompleteDue,
                 initCameraPending, lateCalls, ignoredErrors,
                 completeSeen, faceEverSeen, appVars>>

\* Face-lost branch after await api.startScan(...), lines 397-403
RestartResponse(r, ok) ==
  /\ r \in inflight /\ r.kind = "restart"
  /\ inflight' = inflight \ {r}
  /\ consecutiveErrors' =
       IF ok THEN [consecutiveErrors EXCEPT ![r.sid] = 0] ELSE consecutiveErrors
  /\ lastFaceSeenRef' = now
  /\ ev' = Event("restartResponse", r.sid, ok, "none", Absent, 0, r.at,
               NotWritten)
  /\ UNCHANGED <<now, uiVars, scanStartedRef, pollIntervalRef, scanStartTime,
                 nextSid, timers, onCompleteScheduled, onCompleteDue, initCameraPending,
                 lateCalls, ignoredErrors,
                 completeSeen, faceEverSeen, appVars>>

\* clearInterval(pollIntervalRef.current); setScanning(false);
\* setProgress(100); setMessage(...); setTimeout(() => onComplete(), 1500)
\* lines 432-436, 443-447, 465-469, 485-489
CompleteScan ==
  /\ timers' = timers \ {pollIntervalRef}
  /\ scanning' = FALSE
  /\ progress' = Pct(100)
  /\ message' = "complete"
  /\ onCompleteScheduled' = onCompleteScheduled + 1
  /\ onCompleteDue' = onCompleteDue \cup {now + OnCompleteDelayMs}

\* the faceDetected a tick reads is the one startScan closed over: the
\* render in which the Start button was clicked, where it was true
closureFaceDetected == TRUE

scanMessage == IF closureFaceDetected THEN "scanning" ELSE "keepFace"

\* mutant: a resolved poll leaves the failure counter as it is
StatusOk_KeepsCounter(r, status, pp) ==
  /\ UNCHANGED consecutiveErrors
  /\ IF TimeUp(r.timeElapsed) \/ status = "complete"
       THEN /\ CompleteScan
            /\ UNCHANGED <<error, scanStartedRef>>
       ELSE IF status = "error" /\ BeforeLateMark(r.timeElapsed)
         THEN /\ timers' = timers \ {pollIntervalRef}
              /\ scanning' = FALSE
              /\ error' = "scan"
              /\ scanStartedRef' = FALSE
              /\ progress' = currentProgress(pp, r.timeElapsed)
              /\ message' = scanMessage
              /\ UNCHANGED <<onCompleteScheduled, onCompleteDue>>
         ELSE /\ progress' = currentProgress(pp, r.timeElapsed)
              /\ message' = scanMessage
              /\ UNCHANGED <<timers, scanning, error, scanStartedRef,
                             onCompleteScheduled, onCompleteDue>>

\* The interval callback after await api.getStatus() resolved, lines 412-456
StatusOk(r, status, pp) ==
  /\ consecutiveErrors' = [consecutiveErrors EXCEPT ![r.sid] = 0]
  /\ IF TimeUp(r.timeElapsed) \/ status = "complete"
       THEN /\ CompleteScan
            /\ UNCHANGED <<error, scanStartedRef>>
       ELSE IF status = "error" /\ BeforeLateMark(r.timeElapsed)
         THEN /\ timers' = timers \ {pollIntervalRef}
              /\ scanning' = FALSE
              /\ error' = "scan"
              /\ scanStartedRef' = FALSE
              /\ progress' = currentProgress(pp, r.timeElapsed)
              /\ message' = scanMessage
              /\ UNCHANGED <<onCompleteScheduled, onCompleteDue>>
         ELSE /\ progress' = currentProgress(pp, r.timeElapsed)
              /\ message' = scanMessage
              /\ UNCHANGED <<timers, scanning, error, scanStartedRef,
                             onCompleteScheduled, onCompleteDue>>

\* mutant: a rejected poll fails the session, as in the headless loop
StatusFailed_SetsError(r) ==
  /\ consecutiveErrors' =
       [consecutiveErrors EXCEPT ![r.sid] = consecutiveErrors[r.sid] + 1]
  /\ timers' = timers \ {pollIntervalRef}
  /\ scanning' = FALSE
  /\ error' = "scan"
  /\ progress' = timeBasedProgress(r.timeElapsed)
  /\ message' = scanMessage
  /\ UNCHANGED <<scanStartedRef, onCompleteScheduled, onCompleteDue>>

\* The interval callback after await api.getStatus() rejected, lines 458-491
StatusFailed(r) ==
  /\ consecutiveErrors' =
       [consecutiveErrors EXCEPT ![r.sid] = consecutiveErrors[r.sid] + 1]
  /\ IF \/ TooManyErrors(consecutiveErrors[r.sid] + 1, r.timeElapsed)
        \/ TimeUp(r.timeElapsed)
       THEN CompleteScan
       ELSE /\ progress' = timeBasedProgress(r.timeElapsed)
            /\ message' = scanMessage
            /\ UNCHANGED <<timers, scanning, onCompleteScheduled, onCompleteDue>>
  /\ UNCHANGED <<error, scanStartedRef>>

StatusResponse(r, ok, status, pp) ==
  /\ r \in inflight /\ r.kind = "status"
  /\ inflight' = inflight \ {r}
  /\ IF ok THEN StatusOk(r, status, pp) ELSE StatusFailed(r)
  /\ ev' = Event("statusResponse", r.sid, ok, status, pp, r.timeElapsed, r.at,
               IF ok THEN currentProgress(pp, r.timeElapsed)
               ELSE IF TooManyErrors(consecutiveErrors[r.sid] + 1, r.timeElapsed)
                 THEN Pct(100)
                 ELSE timeBasedProgress(r.timeElapsed))
  /\ ignoredErrors' =
       IF ok /\ status = "error" /\ ~TimeUp(r.timeElapsed)
             /\ ~BeforeLateMark(r.timeElapsed)
         THEN ignoredErrors \cup {r.sid} ELSE ignoredErrors
  /\ completeSeen' =
       IF ok /\ status = "complete"
         THEN completeSeen \cup {r.sid} ELSE completeSeen
  /\ UNCHANGED <<now, cameraReady, faceDetected, lastFaceSeenRef,
                 pollIntervalRef, scanStartTime, nextSid, initCameraPending,
                 lateCalls, faceEverSeen, appVars>>

\* ------------------------------------------------------------------- retry
\* handleRetry, lines 509-524; the Retry button is in the error overlay.
\* The outcome of api.reset() only selects the message.
HandleRetry(ok) ==
  /\ error # NoError
  /\ error' = NoError
  /\ scanning' = FALSE
  /\ progress' = 0
  /\ scanStartedRef' = FALSE
  /\ message' = IF ok THEN "ready" ELSE "resetFailed"
  /\ ev' = Event("handleRetry", NoSid, ok, "none", Absent, 0, 0, 0)
  /\ UNCHANGED <<now, cameraReady, faceDetected, lastFaceSeenRef,
                 pollIntervalRef, scanStartTime, consecutiveErrors, nextSid,
                 timers, inflight, onCompleteScheduled, onCompleteDue,
                 initCameraPending, lateCalls, ignoredErrors,
                 completeSeen, faceEverSeen, appVars>>

StatusOutcomes ==
  {<<TRUE, "running", pp>> : pp \in ServerProgress}
    \cup {<<TRUE, "complete", 100>>, <<TRUE, "error", Absent>>,
          <<FALSE, "none", Absent>>}

Next ==
  \/ \E ok \in BOOLEAN : InitCamera(ok)
  \/ \E face \in BOOLEAN : OnFaceResults(face)
  \/ AdvanceTime
  \/ StartScan
  \/ \E r \in inflight, ok \in BOOLEAN : StartResponse(r, ok)
  \/ \E r \in inflight, ok \in BOOLEAN : ResetResponse(r, ok)
  \/ \E r \in inflight, ok \in BOOLEAN : RestartResponse(r, ok)
  \/ \E r \in inflight, o \in StatusOutcomes :
        /\ o[1] \/ consecutiveErrors[r.sid] < MaxFailureRun
        /\ StatusResponse(r, o[1], o[2], o[3])
  \/ \E ok \in BOOLEAN : HandleRetry(ok)

Spec == Init /\ [][Next]_vars

\* ------------------------------------------------------- the slow network
\* The detector loop on a network where a call may outlast the poll period
SlowAdvanceTime == PeriodEnds(MaxSlowCalls, FALSE)

NextSlow ==
  \/ \E ok \in BOOLEAN : InitCamera(ok)
  \/ \E face \in BOOLEAN : OnFaceResults(face)
  \/ SlowAdvanceTime
  \/ StartScan
  \/ \E r \in inflight, ok \in BOOLEAN : StartResponse(r, ok)
  \/ \E r \in inflight, ok \in BOOLEAN : ResetResponse(r, ok)
  \/ \E r \in inflight, ok \in BOOLEAN : RestartResponse(r, ok)
  \/ \E r \in inflight, o \in StatusOutcomes :
        /\ o[1] \/ consecutiveErrors[r.sid] < MaxFailureRun
        /\ StatusResponse(r, o[1], o[2], o[3])
  \/ \E ok \in BOOLEAN : HandleRetry(ok)

SpecSlow == Init /\ [][NextSlow]_vars

\* --------------------------------------------------------- repeated starts
\* The detector loop on the slow network in the first periods after the
\* mount, with the Start button clicked whenever it is rendered and enabled
\* (lines 611-629), up to MaxRepeatedStarts times.  No tick of these periods
\* takes the face-lost branch: the presence threshold is 3000 ms.
RepeatedAdvanceTime ==
  /\ now < MaxRepeatedTicks * PollPeriodMs
  /\ SlowAdvanceTime

NextRepeated ==
  \/ \E ok \in BOOLEAN : InitCamera(ok)
  \/ \E face \in BOOLEAN : OnFaceResults(face)
  \/ RepeatedAdvanceTime
  \/ StartScanWithin(MaxRepeatedStarts, MaxRepeatedTicks)
  \/ \E r \in inflight, ok \in BOOLEAN : StartResponse(r, ok)
  \/ \E r \in inflight, o \in StatusOutcomes :
        /\ o[1] \/ consecutiveErrors[r.sid] < MaxFailureRun
        /\ StatusResponse(r, o[1], o[2], o[3])
  \/ \E ok \in BOOLEAN : HandleRetry(ok)

SpecRepeated == Init /\ [][NextRepeated]_vars

\* ------------------------------------------------------------ the wizard
\* App (part_000 lines 820-887) shows one step at a time.  Step2_Scanning
\* unmounts when the step changes: by its Back button or when a pending
\* onComplete timeout runs.  The handlers of calls still in flight and the
\* timers that are still set keep running after the unmount; their setState
\* calls then go to the state of the unmounted instance.

\* cleanup, lines 502-507, run by the unmount effect of lines 207-212
Cleanup ==
  /\ timers' = timers \ {pollIntervalRef}
  /\ mounted' = FALSE

\* the Back button of the controls (lines 613-620): onBack is
\* () => setCurrentStep(1), line 874
Back ==
  /\ mounted /\ currentStep = 2
  /\ ~scanning /\ cameraReady
  /\ currentStep' = 1
  /\ Cleanup
  /\ ev' = PlainEvent("back")
  /\ UNCHANGED <<now, uiVars, lastFaceSeenRef, scanStartedRef, pollIntervalRef,
                 scanStartTime, consecutiveErrors, nextSid, inflight,
                 onCompleteScheduled, onCompleteDue, initCameraPending,
                 lateCalls, ignoredErrors, completeSeen, faceEverSeen, twin, loop, results>>

\* A pending setTimeout(() => onComplete(), 1500) runs: onComplete is
\* () => setCurrentStep(3), line 873.  Step2_Scanning unmounts if it is
\* mounted; Step3_Results mounts and its effect calls loadResults, which
\* calls api.getResult() (lines 667-676).
OnCompleteFires(t) ==
  /\ t \in onCompleteDue /\ now >= t
  /\ onCompleteDue' = onCompleteDue \ {t}
  /\ currentStep' = 3
  /\ IF mounted THEN Cleanup ELSE UNCHANGED <<timers, mounted>>
  /\ IF currentStep # 3
       THEN /\ results' = "loading"
            /\ inflight' = inflight \cup {Call("result", NoSid, now, 0, now)}
       ELSE UNCHANGED <<results, inflight>>
  /\ ev' = PlainEvent("onComplete")
  /\ UNCHANGED <<now, uiVars, lastFaceSeenRef, scanStartedRef, pollIntervalRef,
                 scanStartTime, consecutiveErrors, nextSid,
                 onCompleteScheduled, initCameraPending, lateCalls,
                 ignoredErrors, completeSeen, faceEverSeen, twin, loop>>

\* loadResults after await api.getResult(), lines 677-683
ResultResponse(r, ok) ==
  /\ r \in inflight /\ r.kind = "result"
  /\ inflight' = inflight \ {r}
  /\ results' = IF currentStep # 3 THEN results
                ELSE IF ok THEN "loaded" ELSE "failed"
  /\ ev' = Event("resultResponse", NoSid, ok, "none", Absent, 0, r.at, NotWritten)
  /\ UNCHANGED <<now, uiVars, lastFaceSeenRef, scanStartedRef, pollIntervalRef,
                 scanStartTime, consecutiveErrors, nextSid, timers,
                 onCompleteScheduled, onCompleteDue, initCameraPending,
                 lateCalls, ignoredErrors, completeSeen, faceEverSeen, twin, loop, mounted,
                 currentStep>>

\* handleRestart up to its await, lines 685-686.  The New Scan button
\* (line 801) is rendered once the results are loaded.
HandleRestart ==
  /\ currentStep = 3 /\ results = "loaded"
  /\ \A r \in inflight : r.kind # "newScanReset"
  /\ inflight' = inflight \cup {Call("newScanReset", NoSid, now, 0, now)}
  /\ ev' = PlainEvent("handleRestart")
  /\ UNCHANGED <<now, uiVars, lastFaceSeenRef, scanStartedRef, pollIntervalRef,
                 scanStartTime, consecutiveErrors, nextSid, timers,
                 onCompleteScheduled, onCompleteDue, initCameraPending,
                 lateCalls, ignoredErrors, completeSeen, faceEverSeen, appVars>>

\* handleRestart after await api.reset(), line 687: onRestart() is
\* () => setCurrentStep(1), line 876.  A rejected reset leaves the async
\* function with an exception and onRestart() is not called.
HandleRestartResponse(r, ok) ==
  /\ r \in inflight /\ r.kind = "newScanReset"
  /\ inflight' = inflight \ {r}
  /\ IF ok /\ currentStep = 3
       THEN currentStep' = 1 /\ results' = "none"
       ELSE UNCHANGED <<currentStep, results>>
  /\ ev' = Event("handleRestartResponse", NoSid, ok, "none", Absent, 0, r.at,
               NotWritten)
  /\ UNCHANGED <<now, uiVars, lastFaceSeenRef, scanStartedRef, pollIntervalRef,
                 scanStartTime, consecutiveErrors, nextSid, timers,
                 onCompleteScheduled, onCompleteDue, initCameraPending,
                 lateCalls, ignoredErrors, completeSeen, faceEverSeen, twin, loop, mounted>>

\* the clock of the wizard: a timeout that is due runs before more time
\* passes, and time passes while one is pending
AppAdvanceTime ==
  /\ \A t \in onCompleteDue : now < t
  /\ PeriodEnds(MaxLateCalls, onCompleteDue # {})

NextApp ==
  \/ \E ok \in BOOLEAN : mounted /\ InitCamera(ok)
  \/ \E face \in BOOLEAN : mounted /\ OnFaceResults(face)
  \/ AppAdvanceTime
  \/ (mounted /\ StartScan)
  \/ \E r \in inflight, ok \in BOOLEAN : StartResponse(r, ok)
  \/ \E r \in inflight, ok \in BOOLEAN : ResetResponse(r, ok)
  \/ \E r \in inflight, ok \in BOOLEAN : RestartResponse(r, ok)
  \/ \E r \in inflight, o \in StatusOutcomes :
        /\ r.kind = "status"
        /\ o[1] \/ consecutiveErrors[r.sid] < MaxFailureRun
        /\ StatusResponse(r, o[1], o[2], o[3])
  \/ \E ok \in BOOLEAN : mounted /\ HandleRetry(ok)
  \/ Back
  \/ \E t \in onCompleteDue : OnCompleteFires(t)
  \/ \E r \in inflight, ok \in BOOLEAN : ResultResponse(r, ok)
  \/ HandleRestart
  \/ \E r \in inflight, ok \in BOOLEAN : HandleRestartResponse(r, ok)

SpecApp == Init /\ [][NextApp]_vars

\* ------------------------------------------------------ the headless loop
\* Step2_Scanning of src/frontend/app.jsx: no camera, no detector, no
\* time-based progress.  It uses scanning, progress, message, error,
\* pollIntervalRef, the timers and the calls in flight; the other variables
\* keep their initial values.
InitHeadless ==
  /\ now = 0
  /\ cameraReady = FALSE
  /\ scanning = FALSE
  /\ progress = 0
  /\ faceDetected = FALSE
  /\ message = "empty"
  /\ error = NoError
  /\ lastFaceSeenRef = 0
  /\ scanStartedRef = FALSE
  /\ pollIntervalRef = NoSid
  /\ scanStartTime = [s \in Sids |-> 0]
  /\ consecutiveErrors = [s \in Sids |-> 0]
  /\ nextSid = 0
  /\ timers = {}
  /\ inflight = {}
  /\ onCompleteScheduled = 0
  /\ initCameraPending = FALSE
  /\ lateCalls = 0
  /\ ignoredErrors = {}
  /\ completeSeen = {}
  /\ faceEverSeen = FALSE
  /\ loop = "headless"
  /\ mounted = TRUE
  /\ currentStep = 2
  /\ onCompleteDue = {}
  /\ results = "none"
  /\ twin = TwinInit
  /\ ev = PlainEvent("mount")

\* what the headless handlers never write
detectorVars == <<cameraReady, faceDetected, lastFaceSeenRef, scanStartedRef,
                  scanStartTime, consecutiveErrors, initCameraPending,
                  ignoredErrors>>

\* startScan up to its await, app.jsx lines 217-224.  The Start button is
\* rendered while !scanning && !error (lines 269, 305-311).
HeadlessStartScan ==
  /\ ~scanning /\ error = NoError
  /\ nextSid < MaxSessions
  /\ now <= MaxStartTicks * PollPeriodMs
  /\ nextSid' = nextSid + 1
  /\ scanning' = TRUE
  /\ progress' = 0
  /\ error' = NoError
  /\ message' = "starting"
  /\ inflight' = inflight \cup {Call("start", nextSid + 1, now, 0, now)}
  /\ ev' = Event("headlessStartScan", nextSid + 1, TRUE, "none", Absent, 0, now, 0)
  /\ UNCHANGED <<now, pollIntervalRef, timers, onCompleteScheduled, onCompleteDue, lateCalls,
                 completeSeen, faceEverSeen, detectorVars, appVars>>

\* startScan after await api.startScan: lines 225-252, or the catch 253-257
HeadlessStartResponse(r, ok) ==
  /\ r \in inflight /\ r.kind = "start"
  /\ inflight' = inflight \ {r}
  /\ IF ok
       THEN /\ message' = "inProgress"
            /\ pollIntervalRef' = r.sid
            /\ timers' = timers \cup {r.sid}
            /\ UNCHANGED <<error, scanning>>
       ELSE /\ error' = "start"
            /\ scanning' = FALSE
            /\ message' = "error"
            /\ UNCHANGED <<pollIntervalRef, timers>>
  /\ ev' = Event("headlessStartResponse", r.sid, ok, "none", Absent, 0, r.at,
               NotWritten)
  /\ UNCHANGED <<now, progress, nextSid, onCompleteScheduled, onCompleteDue,
                 lateCalls, completeSeen, faceEverSeen, detectorVars, appVars>>

\* One poll period passes and the callback of every live interval timer
\* begins: it calls api.getStatus() at once (lines 228-230).  The clock is
\* bounded as in AdvanceTime.
HeadlessAdvanceTime ==
  /\ now + PollPeriodMs <= MaxTicks * PollPeriodMs
  /\ (timers = {} /\ inflight = {}) =>
        now + PollPeriodMs <= MaxStartTicks * PollPeriodMs
  /\ lateCalls + Cardinality(inflight) <= MaxLateCalls
  /\ lateCalls' = lateCalls + Cardinality(inflight)
  /\ now' = now + PollPeriodMs
  /\ inflight' = inflight \cup
       {Call("status", s, now + PollPeriodMs, 0, now + PollPeriodMs) : s \in timers}
  /\ ev' = IF timers # {}
             THEN Event("headlessPollBegin", NoSid, TRUE, "none", Absent, 0,
                        now + PollPeriodMs, NotWritten)
             ELSE PlainEvent("advanceTime")
  /\ UNCHANGED <<scanning, progress, message, error, pollIntervalRef, nextSid,
                 timers, onCompleteScheduled, onCompleteDue, completeSeen, faceEverSeen, detectorVars,
                 appVars>>

\* The poll callback after await api.getStatus() rejected, lines 246-251
HeadlessStatusFailed ==
  /\ error' = "connection"
  /\ timers' = timers \ {pollIntervalRef}
  /\ scanning' = FALSE
  /\ UNCHANGED <<progress, message, onCompleteScheduled, onCompleteDue>>

\* The poll callback after await api.getStatus() resolved, lines 231-245
HeadlessStatusOk(status, pp) ==
  /\ progress' = Pct(apiProgress(pp))
  /\ IF status = "complete"
       THEN /\ timers' = timers \ {pollIntervalRef}
            /\ scanning' = FALSE
            /\ message' = "complete"
            /\ onCompleteScheduled' = onCompleteScheduled + 1
            /\ onCompleteDue' = onCompleteDue \cup {now + OnCompleteDelayMs}
            /\ UNCHANGED error
       ELSE IF status = "error"
         THEN /\ timers' = timers \ {pollIntervalRef}
              /\ scanning' = FALSE
              /\ error' = "scan"
              /\ message' = "scanFailed"
              /\ UNCHANGED <<onCompleteScheduled, onCompleteDue>>
         ELSE /\ message' = "scanning"
              /\ UNCHANGED <<timers, scanning, error, onCompleteScheduled, onCompleteDue>>

HeadlessStatusResponse(r, ok, status, pp) ==
  /\ r \in inflight /\ r.kind = "status"
  /\ inflight' = inflight \ {r}
  /\ IF ok THEN HeadlessStatusOk(status, pp) ELSE HeadlessStatusFailed
  /\ completeSeen' =
       IF ok /\ status = "complete"
         THEN completeSeen \cup {r.sid} ELSE completeSeen
  /\ ev' = Event("headlessStatusResponse", r.sid, ok, status, pp, 0, r.at,
               IF ok THEN Pct(apiProgress(pp)) ELSE NotWritten)
  /\ UNCHANGED <<now, pollIntervalRef, nextSid, lateCalls, faceEverSeen,
                 detectorVars, appVars>>

\* the Try Again button of the error panel, line 370
HeadlessTryAgain ==
  /\ error # NoError
  /\ error' = NoError
  /\ progress' = 0
  /\ ev' = Event("headlessTryAgain", NoSid, TRUE, "none", Absent, 0, 0, 0)
  /\ UNCHANGED <<now, scanning, message, pollIntervalRef, nextSid, timers,
                 inflight, onCompleteScheduled, onCompleteDue, lateCalls, completeSeen, faceEverSeen,
                 detectorVars, appVars>>

NextHeadless ==
  \/ HeadlessStartScan
  \/ \E r \in inflight, ok \in BOOLEAN : HeadlessStartResponse(r, ok)
  \/ HeadlessAdvanceTime
  \/ \E r \in inflight, o \in StatusOutcomes :
        HeadlessStatusResponse(r, o[1], o[2], o[3])
  \/ HeadlessTryAgain

SpecHeadless == InitHeadless /\ [][NextHeadless]_vars

\* The headless callback never reads the clock: it has no timeElapsed and no
\* Date.now().  In the run below the interval fires again once the previous
\* call has settled and the clock is left where it is, so that a scan of any
\* length is a cycle of the model.  The interval fires as long as it is set
\* and every call is settled in the end, with whatever outcome.
HeadlessTick ==
  /\ timers # {} /\ inflight = {}
  /\ inflight' = {Call("status", s, now, 0, now) : s \in timers}
  /\ ev' = Event("headlessPollBegin", NoSid, TRUE, "none", Absent, 0, now,
               NotWritten)
  /\ UNCHANGED <<now, scanning, progress, message, error, pollIntervalRef,
                 nextSid, timers, onCompleteScheduled, onCompleteDue,
                 lateCalls, completeSeen, faceEverSeen, detectorVars, appVars>>

HeadlessStartSettles ==
  \E r \in inflight, ok \in BOOLEAN : HeadlessStartResponse(r, ok)

HeadlessStatusSettles ==
  \E r \in inflight, o \in StatusOutcomes :
     HeadlessStatusResponse(r, o[1], o[2], o[3])

NextHeadlessLive ==
  \/ HeadlessStartScan
  \/ HeadlessStartSettles
  \/ HeadlessTick
  \/ HeadlessStatusSettles
  \/ HeadlessTryAgain

\* ------------------------------------------------------- the two pages
\* The detector page run with a face in every frame, and beside it the
\* headless page given the same click, the same outcome of the start call
\* and the same outcome of every poll.  The handlers of the headless page
\* are written here as functions of its state h.

\* startScan up to its await, app.jsx lines 217-224
TwinStartScan(h) ==
  IF ~h.scanning /\ h.error = NoError
    THEN [h EXCEPT !.scanning = TRUE, !.progress = 0]
    ELSE h

\* startScan after await api.startScan, app.jsx lines 225-228 or 253-257
TwinStartResponse(h, ok) ==
  IF ok THEN [h EXCEPT !.timer = TRUE]
        ELSE [h EXCEPT !.error = "start", !.scanning = FALSE]

\* the poll callback after await api.getStatus(), app.jsx lines 229-251; a
\* page whose interval is cleared makes no poll
TwinStatusResponse(h, ok, status, pp) ==
  IF ~h.timer THEN h
  ELSE IF ~ok
    THEN [h EXCEPT !.error = "connection", !.timer = FALSE, !.scanning = FALSE]
  ELSE IF status = "complete"
    THEN [h EXCEPT !.progress = Pct(apiProgress(pp)), !.timer = FALSE,
                   !.scanning = FALSE, !.completed = TRUE]
  ELSE IF status = "error"
    THEN [h EXCEPT !.progress = Pct(apiProgress(pp)), !.timer = FALSE,
                   !.scanning = FALSE, !.error = "scan"]
  ELSE [h EXCEPT !.progress = Pct(apiProgress(pp))]

TwinOps == {"startScan", "startResponse", "statusResponse"}

\* the headless page has handled what the detector page handled last
TwinSynced == ev.op \in TwinOps => twin.last = <<ev.op, ev.at>>

\* the headless page handles the click or the response recorded in ev
TwinFollows ==
  /\ ev.op \in TwinOps /\ twin.last # <<ev.op, ev.at>>
  /\ twin' =
       [(CASE ev.op = "startScan" -> TwinStartScan(twin)
           [] ev.op = "startResponse" -> TwinStartResponse(twin, ev.ok)
           [] ev.op = "statusResponse" ->
                TwinStatusResponse(twin, ev.ok, ev.status, ev.pp))
        EXCEPT !.last = <<ev.op, ev.at>>]
  /\ UNCHANGED <<now, uiVars, lastFaceSeenRef, scanStartedRef, pollIntervalRef,
                 scanStartTime, consecutiveErrors, nextSid, timers, inflight,
                 onCompleteScheduled, onCompleteDue, initCameraPending,
                 lateCalls, ignoredErrors, completeSeen, faceEverSeen, loop,
                 mounted, currentStep, results, ev>>

NextTwin ==
  \/ TwinFollows
  \/ (TwinSynced /\ InitCamera(TRUE))
  \/ (TwinSynced /\ OnFaceResults(TRUE))
  \/ (TwinSynced /\ lastFaceSeenRef = now /\ AdvanceTime)
  \/ (TwinSynced /\ StartScan)
  \/ \E r \in inflight, ok \in BOOLEAN : TwinSynced /\ StartResponse(r, ok)
  \/ \E r \in inflight, o \in StatusOutcomes :
        /\ TwinSynced
        /\ o[1] \/ consecutiveErrors[r.sid] < MaxFailureRun
        /\ StatusResponse(r, o[1], o[2], o[3])

SpecTwin == Init /\ [][NextTwin]_vars

\* ------------------------------------------------------------- both loops
\* Either page is loaded: the detector page (part_000) or the headless page
\* (app.jsx).
InitBothLoops == Init \/ InitHeadless

NextBothLoops ==
  \/ (loop = "detector" /\ Next)
  \/ (loop = "headless" /\ NextHeadless)

SpecBothLoops == InitBothLoops /\ [][NextBothLoops]_vars

\* ----------------------------------------------- both loops, scheduled
\* Either page, with the scheduling of the browser: a page's interval fires
\* as long as it is set, the clock advances with it, and every remote call
\* is settled in the end, resolved or rejected.  What the server answers,
\* whether frames arrive and what the user clicks is left open.
CallSettles ==
  \/ \E r \in inflight, ok \in BOOLEAN : StartResponse(r, ok)
  \/ \E r \in inflight, ok \in BOOLEAN : ResetResponse(r, ok)
  \/ \E r \in inflight, ok \in BOOLEAN : RestartResponse(r, ok)
  \/ \E r \in inflight, o \in StatusOutcomes :
        /\ o[1] \/ consecutiveErrors[r.sid] < MaxFailureRun
        /\ StatusResponse(r, o[1], o[2], o[3])

NextLive ==
  \/ (loop = "detector" /\ Next)
  \/ (loop = "headless" /\ NextHeadlessLive)

SpecLive ==
  /\ InitBothLoops /\ [][NextLive]_vars
  /\ WF_vars(loop = "detector" /\ AdvanceTime)
  /\ WF_vars(loop = "detector" /\ CallSettles)
  /\ WF_vars(loop = "headless" /\ HeadlessTick)
  /\ WF_vars(loop = "headless" /\ HeadlessStartSettles)
  /\ WF_vars(loop = "headless" /\ HeadlessStatusSettles)

\* ------------------------------------------------------------- vocabulary
\* the poll step that produced the current state
PollSettled == ev.op = "statusResponse"

\* Complete as the component shows it: timer of the ref stopped, not
\* scanning, progress 100
ShowsComplete ==
  /\ pollIntervalRef \notin timers
  /\ ~scanning
  /\ progress = Pct(100)

\* elapsed * 100 / (durationSeconds * 1000), capped at 99, in progress units
ClaimedTimeBased(elapsed) ==
  IF elapsed * 100 >= 99 * DurationMs THEN 99 * PctUnit
  ELSE (elapsed * 100 * PctUnit) \div DurationMs

\* time-based progress of the settled tick is above 50 percent
PastHalfway(elapsed) == elapsed * 100 > 50 * DurationMs

\* ---------------------------------------------------------------------- C1
\* C1: a poll tick whose elapsed time is at least durationSeconds*1000 leaves
\* the session Complete (timer stopped, not scanning, progress 100) whatever
\* pollStatus returned - running, complete, error - and when it failed.
C1_TimeUpCompletes ==
  (PollSettled /\ ev.timeElapsed >= DurationMs) => ShowsComplete

\* a tick at elapsed >= duration whose poll reported status error
C1_Witness ==
  /\ PollSettled /\ ev.ok /\ ev.status = "error"
  /\ ev.timeElapsed >= DurationMs
  /\ ShowsComplete /\ error = NoError

\* ---------------------------------------------------------------------- C2
\* C2 as stated: the fifth consecutive failure, on a tick with time-based
\* progress > 50, forces Complete.
C2_FifthFailureForces ==
  (/\ PollSettled /\ ~ev.ok
   /\ consecutiveErrors[ev.sid] = 5
   /\ PastHalfway(ev.timeElapsed)) => ShowsComplete

\* C2 amended: the sixth consecutive failure, on a tick with time-based
\* progress > 50, forces Complete on that tick; the fifth consecutive failure
\* with time-based progress > 50 forces nothing: before the duration has
\* elapsed that tick leaves scanning, the timers and the completion callback
\* as they were and writes the time-based progress.
C2_SixthFailureForces ==
  [][(/\ ev'.op = "statusResponse" /\ ~ev'.ok
      /\ PastHalfway(ev'.timeElapsed))
     => /\ consecutiveErrors'[ev'.sid] = 6 => ShowsComplete'
        /\ (consecutiveErrors'[ev'.sid] = 5 /\ ev'.timeElapsed < DurationMs)
             => /\ scanning' = scanning
                /\ timers' = timers
                /\ onCompleteScheduled' = onCompleteScheduled
                /\ progress' = ClaimedTimeBased(ev'.timeElapsed)]_vars

\* a sixth consecutive failure before the duration has elapsed
C2_Witness ==
  /\ PollSettled /\ ~ev.ok
  /\ consecutiveErrors[ev.sid] = 6
  /\ PastHalfway(ev.timeElapsed) /\ ev.timeElapsed < DurationMs
  /\ ShowsComplete

\* ---------------------------------------------------------------------- C3
\* C3: while no call has been late (ticks settle in order), the progress a
\* poll tick leaves is never lower than the progress before it.
C3_ProgressMonotonic ==
  [][(ev'.op = "statusResponse" /\ lateCalls' = 0) => progress' >= progress]_vars

\* ---------------------------------------------------------------------- C4
\* C4: a tick whose pollStatus succeeds writes max(serverProgress,
\* timeBasedProgress), absent server progress counting as 0 and
\* timeBasedProgress = min(elapsed*100/(durationSeconds*1000), 99); the value
\* stays displayed unless the same tick completes the session.
C4_ProgressIsMax ==
  (PollSettled /\ ev.ok) =>
     LET server == IF ev.pp = Absent THEN 0 ELSE ev.pp * PctUnit
         timeBased == ClaimedTimeBased(ev.timeElapsed)
         expected == IF server >= timeBased THEN server ELSE timeBased
     IN  /\ ev.written = expected
         /\ (ev.timeElapsed < DurationMs /\ ev.status # "complete")
              => progress = expected

\* the server's 40 percent wins over a smaller time-based value
C4_Witness ==
  /\ PollSettled /\ ev.ok /\ ev.status = "running" /\ ev.pp = 40
  /\ ev.timeElapsed > 0 /\ ev.timeElapsed < DurationMs
  /\ ClaimedTimeBased(ev.timeElapsed) < 40 * PctUnit
  /\ progress = 40 * PctUnit

\* ---------------------------------------------------------------------- C5
\* C5: a tick of a running session that finds the face unseen for more than
\* 3000 ms takes the face-lost branch: it sets progress to 0, and neither it
\* nor the settling of its reset and start calls changes scanning, the
\* timers or error, whatever those calls return.
C5_FaceLostRestarts ==
  [][/\ (/\ ev'.op \in {"faceLost", "pollBegin"}
         /\ scanning
         /\ now' - lastFaceSeenRef > 3000)
        => (ev'.op = "faceLost" /\ progress' = 0)
     /\ ev'.op \in {"faceLost", "resetResponse", "restartResponse"}
        => /\ scanning' = scanning
           /\ timers' = timers
           /\ error' = error]_vars

\* a face-lost tick of a running session whose reset call then failed
C5_Witness ==
  /\ ev.op = "resetResponse" /\ ~ev.ok
  /\ scanning /\ ev.sid \in timers /\ error = NoError
  /\ progress = 0

\* ---------------------------------------------------------------------- C6
\* C6: after the reset call of a face-lost tick has settled, with either
\* outcome, a start call with the first call's algorithm and duration is in
\* flight for that session.
C6_StartAfterReset ==
  ev.op = "resetResponse" =>
     \E r \in inflight :
        /\ r.kind = "restart" /\ r.sid = ev.sid
        /\ r.algorithm = "pos" /\ r.duration = scanDuration

\* ---------------------------------------------------------------------- C7
\* C7: once the start call of a face-lost restart has succeeded, the
\* session's start timestamp is no earlier than the moment that call was
\* issued, so elapsed time is measured from the restart.
C7_StartTimeRefreshed ==
  (ev.op = "restartResponse" /\ ev.ok) => scanStartTime[ev.sid] >= ev.at

\* ---------------------------------------------------------------------- C8
\* a poll that resolved with status error
ErrorReported(e) == e.op = "statusResponse" /\ e.ok /\ e.status = "error"

\* C8, the parts about the tick itself: a reported error sets Error (timer
\* stopped, not scanning, error set) exactly when elapsed < 0.8 * duration;
\* from 80% on the tick sets no error and, before the duration has elapsed,
\* leaves scanning and the timers as they were.
C8_ErrorTick ==
  ErrorReported(ev') =>
     IF ev'.timeElapsed * 10 < 8 * DurationMs
       THEN /\ error' = "scan"
            /\ ~scanning'
            /\ pollIntervalRef' \notin timers'
       ELSE /\ error' = error
            /\ ev'.timeElapsed < DurationMs =>
                 (scanning' = scanning /\ timers' = timers)

\* C8 as stated: ... and a session in which a late error was ignored ends
\* only by the wall-clock rule, on a tick with elapsed >= duration (checked
\* for ticks that settle in order: no call has been late).
C8_LateErrorThenWallClock ==
  [][/\ C8_ErrorTick
     /\ (/\ ev'.op = "statusResponse" /\ ev'.sid \in ignoredErrors
         /\ lateCalls' = 0
         /\ scanning /\ ~scanning')
        => (ev'.timeElapsed >= DurationMs /\ ShowsComplete')]_vars

\* C8 amended: ... and a session in which a late error was ignored is
\* completed, without error, by every tick that settles with elapsed >=
\* duration: the wall-clock rule completes it unless an earlier tick ended it.
C8_LateErrorIgnored ==
  [][/\ C8_ErrorTick
     /\ (/\ ev'.op = "statusResponse" /\ ev'.sid \in ignoredErrors
         /\ ev'.timeElapsed >= DurationMs)
        => (ShowsComplete' /\ error' = error)]_vars

\* an error reported at 80% or later was ignored and the session then
\* completed by the wall-clock rule, still running until that tick
C8_Witness ==
  /\ PollSettled /\ ev.sid \in ignoredErrors
  /\ ev.timeElapsed >= DurationMs
  /\ ShowsComplete /\ error = NoError
  /\ onCompleteScheduled = 1

\* ---------------------------------------------------------------------- C9
\* the settled tick ends the session: wall clock, or sixth failure past 50%
FailureCompletes(e, errors) ==
  \/ e.timeElapsed >= DurationMs
  \/ errors >= 6 /\ PastHalfway(e.timeElapsed)

\* C9: a failed poll never sets error; it increments the consecutive-failure
\* counter and, unless it completes the session, writes the time-based
\* progress and leaves scanning and the timers as they were.  A scan error
\* is set only by a failed initial start call or by a reported error before
\* 80% of the duration.
C9_FailuresNeverError ==
  [][/\ (ev'.op = "statusResponse" /\ ~ev'.ok)
        => /\ error' = error
           /\ consecutiveErrors'[ev'.sid] = consecutiveErrors[ev'.sid] + 1
           /\ IF FailureCompletes(ev', consecutiveErrors'[ev'.sid])
                THEN ShowsComplete'
                ELSE /\ progress' = ClaimedTimeBased(ev'.timeElapsed)
                     /\ scanning' = scanning
                     /\ timers' = timers
     /\ (error' # error /\ error' \in {"start", "scan"})
        => \/ ev'.op = "startResponse" /\ ~ev'.ok
           \/ ErrorReported(ev') /\ ev'.timeElapsed * 10 < 8 * DurationMs]_vars

\* six failures in a row, the session still polling without error
C9_Witness ==
  /\ PollSettled /\ ~ev.ok
  /\ consecutiveErrors[ev.sid] = 6
  /\ scanning /\ ev.sid \in timers /\ error = NoError
  /\ progress = ClaimedTimeBased(ev.timeElapsed)

\* --------------------------------------------------------------------- C10
\* The scenario of C10: the camera and the start call succeed, a frame with
\* a face is processed in every poll period, every pollStatus call fails.
NextPollsFail ==
  \/ InitCamera(TRUE)
  \/ OnFaceResults(TRUE)
  \/ (lastFaceSeenRef = now /\ AdvanceTime)
  \/ StartScan
  \/ \E r \in inflight : StartResponse(r, TRUE)
  \/ \E r \in inflight : StatusResponse(r, FALSE, "none", Absent)

SpecPollsFail == Init /\ [][NextPollsFail]_vars

\* C10: with duration 45 s, presence held and every poll failing, error is
\* never set, the started session keeps scanning until a completion, a tick
\* whose time-based progress is <= 50 only writes that progress, and a tick
\* whose time-based progress exceeds 50 leaves the session Complete with
\* progress exactly 100.
C10_PollsAlwaysFail ==
  /\ scanDuration = 45
  /\ [](error = NoError)
  /\ []((nextSid > 0 /\ onCompleteScheduled = 0) => scanning)
  /\ [][ev'.op = "statusResponse"
        => IF PastHalfway(ev'.timeElapsed)
             THEN ShowsComplete'
             ELSE /\ progress' = ClaimedTimeBased(ev'.timeElapsed)
                  /\ scanning' = scanning
                  /\ timers' = timers
                  /\ onCompleteScheduled' = onCompleteScheduled]_vars

\* the tick at 23 s, the 46th failure in a row, completed the session
C10_Witness ==
  /\ PollSettled /\ ~ev.ok
  /\ ev.timeElapsed = 23000
  /\ consecutiveErrors[ev.sid] = 46
  /\ ShowsComplete /\ onCompleteScheduled = 1 /\ error = NoError

\* --------------------------------------------------------------------- C11
\* C11: in the headless loop a failed pollStatus does not fail the session:
\* after a single failed poll the session is still scanning, its timer is
\* still set and no error is shown.
C11_HeadlessFailureKeepsPolling ==
  (ev.op = "headlessStatusResponse" /\ ~ev.ok) =>
     /\ scanning
     /\ ev.sid \in timers
     /\ error = NoError

\* --------------------------------------------------------------------- C12
\* the calls a poll tick issues: pollStatus, or reset and start of a restart
TickCalls == {r \in inflight : r.kind \in {"status", "reset", "restart"}}

\* C12: ticks never overlap: the calls in flight for one session were all
\* issued by the same tick, whatever the latency of the responses.
C12_TicksNeverOverlap ==
  \A r1 \in TickCalls, r2 \in TickCalls :
     r1.sid = r2.sid => r1.tick = r2.tick

\* --------------------------------------------------------------------- C13
\* the phases as the component shows them
PhaseComplete == ~scanning /\ progress = Pct(100) /\ onCompleteScheduled > 0

PhaseError == ~scanning /\ error \in {"start", "scan", "connection"}

\* the handler steps that run when a remote call settles
ResponseOps ==
  {"startResponse", "statusResponse", "resetResponse", "restartResponse",
   "headlessStartResponse", "headlessStatusResponse"}

\* C13: once the session is Complete or Error, the settling of a call that
\* was in flight changes nothing: progress, error, message and scanning stay
\* as they were and no further completion is signalled.
C13_TerminalAbsorbsResponses ==
  [][((PhaseComplete \/ PhaseError) /\ ev'.op \in ResponseOps)
       => /\ progress' = progress
          /\ error' = error
          /\ message' = message
          /\ scanning' = scanning
          /\ onCompleteScheduled' = onCompleteScheduled]_vars


\* C14: cancelling (the code's cancel path is the unmount cleanup) stops the
\* poll timer and issues a best-effort reset call, leaving the session idle,
\* and the response of a call that was in flight when the component
\* unmounted is discarded: it writes no ref, sets no timer, schedules no
\* onComplete and issues no further call.
CancelStep == mounted /\ ~mounted'
CancelStopsTimer == timers' = {} /\ ~scanning'
CancelResets == \E r \in inflight' \ inflight : r.kind = "reset"
LateResponseDiscarded ==
  /\ inflight' \subseteq inflight
  /\ timers' = timers
  /\ onCompleteScheduled' = onCompleteScheduled
  /\ UNCHANGED <<lastFaceSeenRef, scanStartedRef, pollIntervalRef, uiVars>>
C14_CancelStopsResetsDiscards ==
  [][/\ CancelStep => (CancelStopsTimer /\ CancelResets)
     /\ (~mounted /\ ev'.op \in ResponseOps) => LateResponseDiscarded]_vars


\* C15: Complete and Error are left only through a reset: while the session
\* is in Complete or in Error a new start is not accepted.
C15_TerminalRefusesStart == (PhaseComplete \/ PhaseError) => ~StartAccepted

\* C16: when the initial api.startScan() call is rejected, in either loop,
\* the error is set and scanning is turned off, and no poll timer is created
\* for that startScan call: a timer is created only by the step that handles
\* the resolved start call of its own startScan call, and a status call is
\* issued only for a startScan call whose timer is set, so no status call is
\* ever issued for a startScan call whose start was rejected.
StartFailureStep ==
  ev'.op \in {"startResponse", "headlessStartResponse"} /\ ~ev'.ok
C16_StartFailureNoPolling ==
  [][/\ StartFailureStep =>
          (error' # NoError /\ ~scanning' /\ ev'.sid \notin timers')
     /\ \A s \in timers' \ timers :
          ev'.op \in {"startResponse", "headlessStartResponse"}
            /\ ev'.ok /\ ev'.sid = s
     /\ \A r \in inflight' \ inflight :
          r.kind = "status" => r.sid \in timers]_vars
C16_Witness ==
  /\ ev.op \in {"startResponse", "headlessStartResponse"} /\ ~ev.ok
  /\ error = "start" /\ ~scanning /\ timers = {}
  /\ \A r \in inflight : r.sid # ev.sid

\* C17: a rejected reset call is never fatal.  After handleRetry the scan is
\* idle and ready to start; after the New Scan button's reset has settled the
\* wizard is at its first step; after the reset of a face-lost tick has
\* settled the start call of the restart is in flight.  Each holds whether
\* the reset call resolved or was rejected.
RetryReachesIdle ==
  ev'.op = "handleRetry" =>
     error' = NoError /\ ~scanning' /\ progress' = 0 /\ ~scanStartedRef'
NewScanReachesFirstStep ==
  (ev'.op = "handleRestartResponse" /\ currentStep = 3) => currentStep' = 1
FaceLostReachesRestart ==
  ev'.op = "resetResponse" =>
     \E r \in inflight' \ inflight : r.kind = "restart"
C17_ResetFailureNonFatal ==
  [][RetryReachesIdle /\ NewScanReachesFirstStep /\ FaceLostReachesRestart]_vars

\* C18: the last-seen timestamp is written only by frame processing: it
\* changes only on a step that processes a frame with a face, and a frame
\* without a face leaves it as it was.
C18_PresenceWrittenByFramesOnly ==
  [][/\ lastFaceSeenRef' # lastFaceSeenRef =>
          (ev'.op = "onFaceResults" /\ ev'.ok)
     /\ (ev'.op = "onFaceResults" /\ ~ev'.ok) =>
          lastFaceSeenRef' = lastFaceSeenRef]_vars

\* C19: the result is fetched only after a status response with status
\* complete was received for the current session: whenever an
\* api.getResult() call is in flight, one of the polls of the latest
\* startScan call has returned complete.
C19_ResultAfterComplete ==
  (\E r \in inflight : r.kind = "result") => nextSid \in completeSeen

\* C20: the step on which the session becomes Complete or Error stops the
\* poll timer, and once the session is Complete or Error the poll loop
\* begins no tick and issues no status, reset or start call.
Terminal == PhaseComplete \/ PhaseError
C20_TerminalStopsLoop ==
  [][/\ (~Terminal /\ Terminal') => timers' = {}
     /\ Terminal =>
          \A r \in inflight' \ inflight :
             r.kind \notin {"status", "reset", "restart"}]_vars

\* --------------------------------------------------------------------- C21
\* the calls by which the client starts a remote session: the start call of
\* startScan and the start call of a presence-loss restart
StartCallsIssued == {r \in inflight' \ inflight : r.kind \in {"start", "restart"}}

\* as stated: no remote start call is issued unless a face is detected
C21_EveryStartCallWithFace ==
  [][StartCallsIssued # {} => faceDetected]_vars

\* C21: the start call of startScan is issued only while a face is detected
\* (the start call of a presence-loss restart is not), and completion is
\* signalled only after a frame with a face has been processed.
C21_CompleteAfterFace ==
  [][/\ (\E r \in inflight' \ inflight : r.kind = "start") => faceDetected
     /\ onCompleteScheduled' > onCompleteScheduled => faceEverSeen]_vars
C21_Witness ==
  /\ PhaseComplete /\ faceEverSeen /\ ~faceDetected
  /\ ev.op = "statusResponse"

\* --------------------------------------------------------------------- C22
\* C22: an error is present only in the Error phase: while error is set the
\* scan is not running (scanning is off and no poll timer is set) and
\* completion has not been signalled.
C22_ErrorOnlyInErrorPhase ==
  error # NoError =>
     /\ ~scanning
     /\ timers = {}
     /\ onCompleteScheduled = 0

\* --------------------------------------------------------------------- C23
\* C23: the displayed progress stays within 0..100; the time-based progress
\* is at most 99 for every elapsed time, also past the duration; and the
\* displayed progress becomes 100 only on a step that completes the session
\* or on a poll whose response reports a progress above 99.
C23_ProgressInRange ==
  [][/\ progress' >= 0 /\ progress' <= 100 * 450
     /\ timeBasedProgress(now') <= 99 * 450
     /\ (progress' = 100 * 450 /\ progress # 100 * 450) =>
          \/ onCompleteScheduled' > onCompleteScheduled
          \/ (ev'.op = "statusResponse" /\ ev'.ok /\ ev'.pp > 99)]_vars
C23_Witness ==
  /\ now > 45000 /\ scanning
  /\ (now * 100 * 450) \div 45000 > 100 * 450
  /\ timeBasedProgress(now) = 99 * 450

\* --------------------------------------------------------------------- C24
\* C24: every started session terminates: a scan that is running is, at some
\* later time, no longer running (it has reached Complete or Error),
\* whatever the server reports.
C24_EveryScanTerminates == scanning ~> ~scanning

\* --------------------------------------------------------------------- C25
\* C25: the failure counter of a session is the length of the current run of
\* failed polls: a resolved poll sets it to 0, a rejected poll adds one, and
\* a poll forces completion before the duration has elapsed only when it is
\* rejected and is the sixth or later of an uninterrupted run of rejected
\* polls.
C25_CounterCountsRuns ==
  [][/\ (ev'.op = "statusResponse" /\ ev'.ok) =>
          consecutiveErrors'[ev'.sid] = 0
     /\ (ev'.op = "statusResponse" /\ ~ev'.ok) =>
          consecutiveErrors'[ev'.sid] = consecutiveErrors[ev'.sid] + 1
     /\ (/\ ev'.op = "statusResponse"
         /\ onCompleteScheduled' > onCompleteScheduled
         /\ ev'.timeElapsed < 45000
         /\ ev'.status # "complete") =>
          (~ev'.ok /\ consecutiveErrors[ev'.sid] >= 5)]_vars
\* a rejected poll past the halfway mark, long after the sixth poll, that is
\* the first of its run and does not force completion
C25_Witness ==
  /\ ev.op = "statusResponse" /\ ~ev.ok
  /\ ev.timeElapsed > 25000
  /\ consecutiveErrors[ev.sid] = 1
  /\ scanning /\ onCompleteScheduled = 0

\* --------------------------------------------------------------------- C26
\* a poll tick begins on this step
TickBegins == now' # now /\ timers # {}
\* the presence-loss rule as the claim states it, at the time of the tick
PresenceLost == now' - lastFaceSeenRef > 3000 /\ scanStartedRef
\* no completion rule and no error rule is applied on this step
NoVerdict ==
  /\ scanning' = scanning /\ error' = error /\ timers' = timers
  /\ onCompleteScheduled' = onCompleteScheduled

\* C26: the presence-loss rule is evaluated first.  A tick on which it fires
\* issues a reset call and no status call and applies neither a completion
\* rule nor the error rule, also when the duration has elapsed, and neither
\* do the steps that handle the reset and the restart of that tick; a status
\* call is issued only by a tick on which the rule does not fire.
C26_PresenceRuleFirst ==
  [][/\ (TickBegins /\ PresenceLost) =>
          /\ \A r \in inflight' \ inflight : r.kind = "reset"
          /\ inflight' # inflight
          /\ NoVerdict
     /\ (TickBegins /\ ~PresenceLost) =>
          \A r \in inflight' \ inflight : r.kind = "status"
     /\ ev'.op \in {"resetResponse", "restartResponse"} => NoVerdict]_vars
\* a face-lost tick after the duration has elapsed: the scan is still running
C26_Witness ==
  /\ ev.op = "faceLost"
  /\ \E s \in timers : now - scanStartTime[s] >= 45000
  /\ \A r \in inflight : r.kind = "reset"
  /\ scanning /\ onCompleteScheduled = 0 /\ error = NoError

\* --------------------------------------------------------------------- C27
\* C27: the start timestamp of a session is taken when its start call
\* succeeds: on the step that handles the resolved start call the timestamp
\* is the time of that step, so the latency of the call is not part of the
\* elapsed time.
C27_StartTimeAtSuccess ==
  (ev.op = "startResponse" /\ ev.ok) => scanStartTime[ev.sid] = now

\* --------------------------------------------------------------------- C28
\* the phase a page shows
PagePhase(completed, err, running) ==
  IF completed THEN "Complete"
  ELSE IF err # NoError THEN "Error"
  ELSE IF running THEN "Running" ELSE "Idle"

\* C28: the headless loop is the detector loop with presence always true:
\* given the same outcome of every poll, after every tick both pages are in
\* the same phase and show the same progress.
C28_LoopsEquivalent ==
  (ev.op = "statusResponse" /\ TwinSynced) =>
     /\ PagePhase(onCompleteScheduled > 0, error, scanning)
          = PagePhase(twin.completed, twin.error, twin.scanning)
     /\ progress = twin.progress

\* --------------------------------------------------------------------- C29
\* C29: onComplete is scheduled at most once for every started session: the
\* number of setTimeout(() => onComplete(), 1500) calls made so far is at
\* most the number of startScan calls made so far.
C29_OnCompleteOncePerSession == onCompleteScheduled <= nextSid

\* --------------------------------------------------------------------- C30
\* C30: a status call is issued only against a remote session the client
\* believes started.  In particular, once the start call of a presence-loss
\* restart has been rejected (the reset before it having succeeded), the
\* next step issues no status call.
C30_NoPollAfterFailedRestart ==
  [][(ev.op = "restartResponse" /\ ~ev.ok) =>
        \A r \in inflight' \ inflight : r.kind # "status"]_vars

\* C31: at most one poll timer is set at any time, and pollIntervalRef
\* refers to it: every timer that is set is the one pollIntervalRef holds.
C31_AtMostOneTimer ==
  /\ Cardinality(timers) <= 1
  /\ timers \subseteq {pollIntervalRef}

\* C32: while the detector page shows Complete (not scanning, the completion
\* message up) the displayed progress is 100, and the only steps that take
\* it away from 100 are a new start and a retry, which set it to 0.
CompleteShown == ~scanning /\ message = "complete"

C32_CompleteShows100 ==
  [][/\ (~scanning' /\ message' = "complete") => progress' = Pct(100)
     /\ (CompleteShown /\ progress' # Pct(100)) =>
           (ev'.op \in {"startScan", "handleRetry"} /\ progress' = 0)]_vars

\* C33: a poll tick that leaves the scan running writes the message that
\* goes with the presence of the most recent frame: the percentage message
\* if that frame had a face, the keep-your-face-in-frame warning if not.
C33_MessageReflectsPresence ==
  [][(ev'.op = "statusResponse" /\ scanning') =>
        message' = IF faceDetected THEN "scanning" ELSE "keepFace"]_vars

====
